---- MODULE Spec2Model ----
(***************************************************************************)
(* The VRL `redact` function (lib/vrl/stdlib/src/redact.rs): filter        *)
(* validation at compile time, and the recursive redaction of a value at   *)
(* resolve time.                                                           *)
(*                                                                         *)
(* Byte strings and texts are sequences of one-character strings.          *)
(* Expressions, values, filters and patterns are records of a kind and the *)
(* fields of that kind; a Result is [ok, val] or [ok, err].                 *)
(***************************************************************************)
EXTENDS Integers, Sequences, FiniteSets, TLC

VARIABLES filters_arg, value, pc, dbg_err, compiled, outputs

vars == <<filters_arg, value, pc, dbg_err, compiled, outputs>>

(***************************************************************************)
(* Bounds of the model.                                                    *)
(***************************************************************************)
MaxFilters == 2
MaxPatterns == 2
MaxTextLen == 3
MaxLitLen == 2
MaxRuns == 2
MaxElems == 2
MaxCardLen == 17

(***************************************************************************)
(* Characters.                                                             *)
(***************************************************************************)
Digits == {"0", "1", "2", "3", "4", "5", "6", "7", "8", "9"}

\* The characters of the model's alphabets that the regex engine's \b counts as word
\* characters (letters, digits, underscore).
WordChars == Digits \cup {"a", "b", "c", "d", "e", "i", "n", "p", "r", "t", "x", "_",
                          "R", "E", "D", "A", "C", "T"}

\* A byte that is not valid UTF-8, and the character from_utf8_lossy puts in its place.
InvalidByte == "\\xFF"
ReplacementChar == "\\uFFFD"

At(s, i) == IF i >= 1 /\ i <= Len(s) THEN s[i] ELSE ""

\* Whether s holds n digits from position i on.
DigitsAt(s, i, n) == i + n - 1 <= Len(s) /\ \A k \in i..(i + n - 1) : s[k] \in Digits

Ok(x) == [ok |-> TRUE, val |-> x]
Err(e) == [ok |-> FALSE, err |-> e]

(***************************************************************************)
(* Redactor                                                                *)
(***************************************************************************)
Marker == <<"[", "R", "E", "D", "A", "C", "T", "E", "D", "]">>

EmptyMarkerPattern(redactor) == <<>>

RedactorPattern(redactor) == CASE redactor = "Full" -> Marker

(***************************************************************************)
(* Expressions of the host language, as try_from sees them.                *)
(***************************************************************************)
StringLit(bytes) == [kind |-> "Literal::String", bytes |-> bytes]
RegexLit(src) == [kind |-> "Literal::Regex", regex |-> src]
IntegerLit(n) == [kind |-> "Literal::Integer", int |-> n]
ArrayExpr(elems) == [kind |-> "Container::Array", array |-> elems]
ObjectExpr(map) == [kind |-> "Container::Object", object |-> map]
VariableExpr(name) == [kind |-> "Variable", ident |-> name]

CREDIT_CARD_NAME == <<"c", "r", "e", "d", "i", "t", "_", "c", "a", "r", "d">>
PATTERN_NAME == <<"p", "a", "t", "t", "e", "r", "n">>

(***************************************************************************)
(* Filters and patterns.                                                   *)
(***************************************************************************)
PatternRegex(re) == [kind |-> "Regex", regex |-> re]
PatternString(s) == [kind |-> "String", string |-> s]
FilterPattern(patterns) == [kind |-> "Pattern", patterns |-> patterns]
FilterCreditCard == [kind |-> "CreditCard"]

(***************************************************************************)
(* The error messages of try_from, named by the kind of error each is      *)
(* (the backquotes around the word patterns are left out).                 *)
(***************************************************************************)
MissingTypeField == "filters specified as objects must have type paramater"
InvalidTypeValue == "type key in filters must be a literal string"
UnknownFilterName == "unknown filter name"
BareArgumentlessPattern == "pattern cannot be used without arguments"
MissingPatternsField == "pattern filter must have patterns specified"
InvalidPatternsEntry == "patterns must be regular expressions"
InvalidPatternsShape == "patterns must be array of regular expression literals"
InvalidFilterLiteral == "unknown literal for filter, must be a regex, filter name, or object"

\* What compile returns for every validation error.
UnexpectedExpressionTODO == "UnexpectedExpression { keyword: TODO, expected: TODO, expr: TODO }"

(***************************************************************************)
(* TryFrom<expression::Expr> for Filter                                    *)
(***************************************************************************)
\* One element of a `patterns` array.
PatternFromExpr(expr) ==
    IF expr.kind = "Literal::Regex" THEN Ok(PatternRegex(expr.regex))
    ELSE IF expr.kind = "Literal::String" THEN Ok(PatternString(expr.bytes))
    ELSE Err(InvalidPatternsEntry)

\* collect::<Result<Vec<_>, _>>() over the mapped elements: the first Err ends it.
RECURSIVE CollectPatterns(_)
CollectPatterns(array) ==
    IF array = <<>> THEN Ok(<<>>)
    ELSE LET first == PatternFromExpr(Head(array))
         IN IF ~first.ok THEN first
            ELSE LET rest == CollectPatterns(Tail(array))
                 IN IF rest.ok THEN Ok(<<first.val>> \o rest.val) ELSE rest

TryFromObject(object) ==
    IF "type" \notin DOMAIN object THEN Err(MissingTypeField)
    ELSE IF object["type"].kind # "Literal::String" THEN Err(InvalidTypeValue)
    ELSE LET type == object["type"].bytes
         IN IF type = CREDIT_CARD_NAME THEN Ok(FilterCreditCard)
            ELSE IF type = PATTERN_NAME THEN
                IF "patterns" \notin DOMAIN object THEN Err(MissingPatternsField)
                ELSE IF object["patterns"].kind = "Container::Array" THEN
                    LET patterns == CollectPatterns(object["patterns"].array)
                    IN IF patterns.ok THEN Ok(FilterPattern(patterns.val)) ELSE patterns
                ELSE Err(InvalidPatternsShape)
            ELSE Err(UnknownFilterName)

TryFrom(expr) ==
    IF expr.kind = "Container::Object" THEN TryFromObject(expr.object)
    ELSE IF expr.kind = "Literal::String" THEN
        IF expr.bytes = PATTERN_NAME THEN Err(BareArgumentlessPattern)
        ELSE IF expr.bytes = CREDIT_CARD_NAME THEN Ok(FilterCreditCard)
        ELSE Err(UnknownFilterName)
    ELSE IF expr.kind = "Literal::Regex" THEN Ok(FilterPattern(<<PatternRegex(expr.regex)>>))
    ELSE Err(InvalidFilterLiteral)

\* A collect that goes on past an error and keeps the last one.
RECURSIVE CollectFiltersLastError(_)
CollectFiltersLastError(exprs) ==
    IF exprs = <<>> THEN Ok(<<>>)
    ELSE LET first == TryFrom(Head(exprs))
             rest == CollectFiltersLastError(Tail(exprs))
         IN IF ~rest.ok THEN rest
            ELSE IF ~first.ok THEN first
            ELSE Ok(<<first.val>> \o rest.val)

\* compile: .into_iter().map(try_into).collect::<Result<Vec<Filter>>>()
RECURSIVE CollectFilters(_)
CollectFilters(exprs) ==
    IF exprs = <<>> THEN Ok(<<>>)
    ELSE LET first == TryFrom(Head(exprs))
         IN IF ~first.ok THEN first
            ELSE LET rest == CollectFilters(Tail(exprs))
                 IN IF rest.ok THEN Ok(<<first.val>> \o rest.val) ELSE rest

(***************************************************************************)
(* Matching and substitution                                               *)
(***************************************************************************)
\* String::from_utf8_lossy: every invalid byte becomes U+FFFD.
FromUtf8Lossy(bytes) ==
    [i \in 1..Len(bytes) |-> IF bytes[i] = InvalidByte THEN ReplacementChar ELSE bytes[i]]

Min(S) == CHOOSE x \in S : \A y \in S : x <= y

\* The first occurrence of the non-empty text `from` in s at or after position i, or 0.
NextOccurrence(s, from, i) ==
    LET found == {p \in i..(Len(s) - Len(from) + 1) : SubSeq(s, p, p + Len(from) - 1) = from}
    IN IF found = {} THEN 0 ELSE Min(found)

\* str::replace with an empty `from`: match_indices yields every character boundary,
\* the end of the text included, so `to` is pushed before every character and after
\* the last one.
ReplaceEmpty(s, to) ==
    LET block == Len(to) + 1
    IN [j \in 1..(Len(s) + (Len(s) + 1) * Len(to)) |->
          IF (j - 1) % block < Len(to) THEN to[((j - 1) % block) + 1]
          ELSE s[((j - 1) \div block) + 1]]

\* A replace that stops after the first occurrence (str::replacen(from, to, 1)).
StrReplaceFirst(s, from, to) ==
    IF from = <<>> THEN to \o s
    ELSE LET start == NextOccurrence(s, from, 1)
         IN IF start = 0 THEN s
            ELSE SubSeq(s, 1, start - 1) \o to \o SubSeq(s, start + Len(from), Len(s))

\* The loop of str::replace from position last_end on: match_indices finds the
\* occurrences of `from` left to right, each search starting where the previous
\* match ended; the text between two matches is copied and `to` is pushed for the
\* match; the text after the last match is copied.
RECURSIVE StrReplaceFrom(_, _, _, _)
StrReplaceFrom(s, from, to, last_end) ==
    LET start == NextOccurrence(s, from, last_end)
    IN IF start = 0 THEN SubSeq(s, last_end, Len(s))
       ELSE SubSeq(s, last_end, start - 1) \o to
              \o StrReplaceFrom(s, from, to, start + Len(from))

\* str::replace
StrReplace(s, from, to) ==
    IF from = <<>> THEN ReplaceEmpty(s, to) ELSE StrReplaceFrom(s, from, to, 1)

\* The regular expressions of the model, by their source text.
RE_DIGITS == "\\d+"
RE_WORD_START_A == "\\ba"
CREDIT_CARD_REGEX == "(?:4[0-9]{12}(?:[0-9]{3})?|[25][1-7][0-9]{14}|6(?:011|5[0-9][0-9])[0-9]{12}|3[47][0-9]{13}|3(?:0[0-5]|[68][0-9])[0-9]{11}|(?:2131|1800|35\\d{3})\\d{11})"

\* The last position of the run of digits that starts at i.
DigitRunEnd(s, i) ==
    CHOOSE e \in i..Len(s) : DigitsAt(s, i, e - i + 1) /\ At(s, e + 1) \notin Digits

\* The credit-card regex at position i: the position of the last character of the
\* match, or 0. The alternatives are tried in the order they are written
\* (leftmost-first) and the optional group of the first one is greedy.
CardMatchEnd(s, i) ==
    IF At(s, i) = "4" /\ DigitsAt(s, i + 1, 12)
        THEN (IF DigitsAt(s, i + 13, 3) THEN i + 15 ELSE i + 12)
    ELSE IF At(s, i) \in {"2", "5"} /\ At(s, i + 1) \in {"1", "2", "3", "4", "5", "6", "7"}
            /\ DigitsAt(s, i + 2, 14)
        THEN i + 15
    ELSE IF At(s, i) = "6"
            /\ \/ At(s, i + 1) = "0" /\ At(s, i + 2) = "1" /\ At(s, i + 3) = "1"
               \/ At(s, i + 1) = "5" /\ DigitsAt(s, i + 2, 2)
            /\ DigitsAt(s, i + 4, 12)
        THEN i + 15
    ELSE IF At(s, i) = "3" /\ At(s, i + 1) \in {"4", "7"} /\ DigitsAt(s, i + 2, 13)
        THEN i + 14
    ELSE IF At(s, i) = "3"
            /\ \/ At(s, i + 1) = "0" /\ At(s, i + 2) \in {"0", "1", "2", "3", "4", "5"}
               \/ At(s, i + 1) \in {"6", "8"} /\ DigitsAt(s, i + 2, 1)
            /\ DigitsAt(s, i + 3, 11)
        THEN i + 13
    ELSE IF At(s, i) = "2" /\ At(s, i + 1) = "1" /\ At(s, i + 2) = "3" /\ At(s, i + 3) = "1"
            /\ DigitsAt(s, i + 4, 11)
        THEN i + 14
    ELSE IF At(s, i) = "1" /\ At(s, i + 1) = "8" /\ At(s, i + 2) = "0" /\ At(s, i + 3) = "0"
            /\ DigitsAt(s, i + 4, 11)
        THEN i + 14
    ELSE IF At(s, i) = "3" /\ At(s, i + 1) = "5" /\ DigitsAt(s, i + 2, 3)
            /\ DigitsAt(s, i + 5, 11)
        THEN i + 15
    ELSE 0

\* The match of regex re that starts at position i: the position of its last
\* character, or 0 when there is none. No regex of the model matches the empty text.
RegexMatchEnd(re, s, i) ==
    CASE re = RE_DIGITS -> IF At(s, i) \in Digits THEN DigitRunEnd(s, i) ELSE 0
      [] re = RE_WORD_START_A ->
            IF At(s, i) = "a" /\ (i = 1 \/ s[i - 1] \notin WordChars) THEN i ELSE 0
      [] re = CREDIT_CARD_REGEX -> CardMatchEnd(s, i)

\* The start of the leftmost match of re in s at or after position i, or 0.
NextMatch(re, s, i) ==
    LET found == {p \in i..Len(s) : RegexMatchEnd(re, s, p) >= p}
    IN IF found = {} THEN 0 ELSE Min(found)

\* Regex::replace_all, from position last_end on: the leftmost match is replaced
\* and the search goes on after it; `rep` holds no $, so it is copied as it is.
RECURSIVE RegexReplaceAllFrom(_, _, _, _)
RegexReplaceAllFrom(re, s, rep, last_end) ==
    LET start == NextMatch(re, s, last_end)
    IN IF start = 0 THEN SubSeq(s, last_end, Len(s))
       ELSE SubSeq(s, last_end, start - 1) \o rep
              \o RegexReplaceAllFrom(re, s, rep, RegexMatchEnd(re, s, start) + 1)

\* A replace that stops after the first match (Regex::replace).
RegexReplaceFirst(re, s, rep) ==
    LET start == NextMatch(re, s, 1)
    IN IF start = 0 THEN s
       ELSE SubSeq(s, 1, start - 1) \o rep \o SubSeq(s, RegexMatchEnd(re, s, start) + 1, Len(s))

\* Regex::replace_all
RegexReplaceAll(re, s, rep) == RegexReplaceAllFrom(re, s, rep, 1)

\* One step of the fold inside Filter::redact.
PatternRedact(pattern, input, redactor) ==
    IF pattern.kind = "Regex"
    THEN RegexReplaceAll(pattern.regex, input, RedactorPattern(redactor))
    ELSE StrReplace(input, pattern.string, RedactorPattern(redactor))

\* patterns.iter().fold(input, ...)
RECURSIVE FoldPatterns(_, _, _)
FoldPatterns(patterns, input, redactor) ==
    IF patterns = <<>> THEN input
    ELSE FoldPatterns(Tail(patterns), PatternRedact(Head(patterns), input, redactor), redactor)

\* Filter::redact
FilterRedact(filter, input, redactor) ==
    IF filter.kind = "Pattern" THEN FoldPatterns(filter.patterns, input, redactor)
    ELSE RegexReplaceAll(CREDIT_CARD_REGEX, input, RedactorPattern(redactor))

\* A fold that applies the filters last to first.
RECURSIVE FoldFiltersRight(_, _, _)
FoldFiltersRight(filters, input, redactor) ==
    IF filters = <<>> THEN input
    ELSE FilterRedact(Head(filters), FoldFiltersRight(Tail(filters), input, redactor), redactor)

\* filters.iter().fold(input, |input, filter| filter.redact(input, redactor))
RECURSIVE FoldFilters(_, _, _)
FoldFilters(filters, input, redactor) ==
    IF filters = <<>> THEN input
    ELSE FoldFilters(Tail(filters), FilterRedact(Head(filters), input, redactor), redactor)

(***************************************************************************)
(* Values and the recursive traversal                                      *)
(***************************************************************************)
Bytes(b) == [kind |-> "Bytes", bytes |-> b]
Array(values) == [kind |-> "Array", values |-> values]
Object(map) == [kind |-> "Object", map |-> map]
Integer(n) == [kind |-> "Integer", int |-> n]
Boolean(b) == [kind |-> "Boolean", bool |-> b]
Null == [kind |-> "Null"]

RECURSIVE redact(_, _, _)

\* An entry whose key is passed through the filters as well.
RedactEntryAndKey(key, v, filters, redactor) ==
    FoldFilters(filters, key, redactor) :> redact(v, filters, redactor)

\* |(key, value)| (key, redact(value, filters, redactor))
RedactEntry(key, v, filters, redactor) == key :> redact(v, filters, redactor)

\* values.into_iter().map(|value| redact(value, filters, redactor)).collect()
RECURSIVE RedactValues(_, _, _)
RedactValues(values, filters, redactor) ==
    IF values = <<>> THEN <<>>
    ELSE <<redact(Head(values), filters, redactor)>>
            \o RedactValues(Tail(values), filters, redactor)

\* map.into_iter().map(...).collect(), over the entries with their key in keys.
RECURSIVE RedactEntries(_, _, _, _)
RedactEntries(map, keys, filters, redactor) ==
    IF keys = {} THEN <<>>
    ELSE LET key == CHOOSE k \in keys : TRUE
         IN RedactEntry(key, map[key], filters, redactor)
              @@ RedactEntries(map, keys \ {key}, filters, redactor)

\* fn redact(value, filters, redactor)
redact(v, filters, redactor) ==
    CASE v.kind = "Bytes" -> Bytes(FoldFilters(filters, FromUtf8Lossy(v.bytes), redactor))
      [] v.kind = "Array" -> Array(RedactValues(v.values, filters, redactor))
      [] v.kind = "Object" -> Object(RedactEntries(v.map, DOMAIN v.map, filters, redactor))
      [] OTHER -> v

(***************************************************************************)
(* The program: compile once, then resolve.                                *)
(***************************************************************************)
NoError == "none"
NotCompiled == Err("not compiled")

\* Redact::compile. The validation error is printed by dbg! and replaced by a
\* placeholder error.
Compile ==
    /\ pc = "start"
    /\ LET filters == CollectFilters(filters_arg)
       IN IF filters.ok
          THEN /\ compiled' = Ok([filters |-> filters.val, redactor |-> "Full"])
               /\ dbg_err' = NoError
               /\ pc' = "compiled"
          ELSE /\ compiled' = Err(UnexpectedExpressionTODO)
               /\ dbg_err' = filters.err
               /\ pc' = "error"
    /\ UNCHANGED <<filters_arg, value, outputs>>

\* What the `value` expression resolves to: the event's field, which holds the
\* result of the previous run once the program has run.
CurrentValue == IF outputs = <<>> THEN value ELSE outputs[Len(outputs)]

\* RedactFn::resolve
Resolve ==
    /\ pc = "compiled"
    /\ Len(outputs) < MaxRuns
    /\ LET output == redact(CurrentValue, compiled.val.filters, compiled.val.redactor)
       IN outputs' = Append(outputs, output)
    /\ UNCHANGED <<filters_arg, value, pc, dbg_err, compiled>>

Next == Compile \/ Resolve

(***************************************************************************)
(* The inputs of the model.                                                *)
(***************************************************************************)
Seqs(S, n) == UNION {[1..k -> S] : k \in 0..n}

ObjectOfType(type) == ObjectExpr([type |-> type])
PatternObject(patterns) ==
    ObjectExpr([type |-> StringLit(PATTERN_NAME), patterns |-> ArrayExpr(patterns)])

InitProgram ==
    /\ pc = "start"
    /\ dbg_err = NoError
    /\ compiled = NotCompiled
    /\ outputs = <<>>

\* --- redaction of texts and of value trees -------------------------------
TextChars == {"a", "1", "]"}

FilterEntries ==
    { StringLit(CREDIT_CARD_NAME),
      RegexLit(RE_DIGITS),
      RegexLit(RE_WORD_START_A),
      PatternObject(<<StringLit(<<"a">>)>>),
      PatternObject(<<StringLit(<<"]">>)>>),
      PatternObject(<<StringLit(<<"a">>), StringLit(<<"]">>)>>),
      PatternObject(<<StringLit(<<"a", "1">>), RegexLit(RE_DIGITS)>>) }

TextValues == {Bytes(t) : t \in Seqs(TextChars, MaxTextLen)}

Leaves ==
    { Bytes(<<"a", "a", "1">>), Bytes(<<InvalidByte, "a">>), Integer(42), Boolean(TRUE), Null }

Keys == {<<"a">>, <<"k", "1">>}

Arrays == {Array(vs) : vs \in Seqs(Leaves, MaxElems)}
Objects == {Object(m) : m \in UNION {[K -> Leaves] : K \in SUBSET Keys}}
Nested ==
    {Array(<<o>>) : o \in Objects} \cup {Object([k \in {<<"a">>} |-> a]) : a \in Arrays}

TreeValues == Arrays \cup Objects \cup Nested

Init ==
    /\ InitProgram
    /\ \/ value \in TextValues /\ filters_arg \in Seqs(FilterEntries, MaxFilters)
       \/ value \in TreeValues /\ filters_arg \in Seqs(FilterEntries, 1)

Spec == Init /\ [][Next]_vars

\* --- one literal matcher ---------------------------------------------------
LiteralTexts == Seqs(TextChars \cup {"b"}, MaxTextLen + 1)
Literals == Seqs({"a", "b", "]"}, MaxLitLen)

InitLiteral ==
    /\ InitProgram
    /\ value \in {Bytes(t) : t \in LiteralTexts}
    /\ filters_arg \in {<<PatternObject(<<StringLit(l)>>)>> : l \in Literals}

SpecLiteral == InitLiteral /\ [][Next]_vars

\* --- validation of the filters argument -----------------------------------
PatternElements == {StringLit(<<"a">>), RegexLit(RE_DIGITS), IntegerLit(1)}

ValidationEntries ==
    { StringLit(CREDIT_CARD_NAME),
      StringLit(PATTERN_NAME),
      StringLit(<<"x">>),
      RegexLit(RE_DIGITS),
      IntegerLit(1),
      VariableExpr("x"),
      ArrayExpr(<<>>),
      ObjectExpr([other |-> IntegerLit(1)]),
      ObjectExpr([patterns |-> ArrayExpr(<<StringLit(<<"a">>)>>)]),
      ObjectOfType(IntegerLit(1)),
      ObjectExpr([type |-> RegexLit(RE_DIGITS), patterns |-> IntegerLit(1)]),
      ObjectOfType(StringLit(CREDIT_CARD_NAME)),
      ObjectOfType(StringLit(<<"x">>)),
      ObjectExpr([type |-> StringLit(<<"x">>), patterns |-> IntegerLit(1)]),
      ObjectOfType(StringLit(PATTERN_NAME)),
      ObjectExpr([type |-> StringLit(PATTERN_NAME), patterns |-> StringLit(<<"a">>)]),
      ObjectExpr([type |-> StringLit(PATTERN_NAME), patterns |-> RegexLit(RE_DIGITS)]) }
    \cup {PatternObject(ps) : ps \in Seqs(PatternElements, MaxPatterns)}

InitValidate ==
    /\ InitProgram
    /\ value = Bytes(<<"a", "1">>)
    /\ filters_arg \in Seqs(ValidationEntries, MaxFilters)

SpecValidate == InitValidate /\ [][Next]_vars

\* --- the credit-card filter --------------------------------------------------
CardPrefixes ==
    { <<"4">>, <<"4", "9">>,
      <<"5", "0">>, <<"5", "1">>, <<"5", "5">>, <<"5", "6">>, <<"5", "7">>, <<"5", "8">>,
      <<"2", "1">>, <<"2", "0">>, <<"2", "2", "2", "0">>, <<"2", "2", "2", "1">>,
      <<"2", "7", "2", "0">>, <<"2", "7", "2", "1">>, <<"2", "8">>,
      <<"3", "4">>, <<"3", "7">>, <<"3", "3">>,
      <<"3", "0", "0">>, <<"3", "0", "5">>, <<"3", "0", "6">>, <<"3", "6">>, <<"3", "8">>,
      <<"3", "9">>,
      <<"6", "0", "1", "1">>, <<"6", "0", "1", "2">>, <<"6", "5">>, <<"6", "4">>,
      <<"2", "1", "3", "1">>, <<"1", "8", "0", "0">>, <<"1", "8", "0", "1">>, <<"3", "5">>,
      <<"9">> }

CardNumbers ==
    { p \o [i \in 1..(n - Len(p)) |-> d] :
        p \in CardPrefixes, n \in (MaxCardLen - 5)..MaxCardLen, d \in {"0", "7"} }

\* The card number of the function's own test.
TestCardNumber ==
    <<"4", "9", "1", "6", "1", "5", "5", "5", "2", "4", "1", "8", "4", "7", "8", "2">>

InitCard ==
    /\ InitProgram
    /\ value \in {Bytes(n) : n \in CardNumbers \cup {TestCardNumber}}
    /\ filters_arg \in { <<StringLit(CREDIT_CARD_NAME)>>,
                         <<ObjectOfType(StringLit(CREDIT_CARD_NAME))>> }

SpecCard == InitCard /\ [][Next]_vars

(***************************************************************************)
(* Properties                                                              *)
(***************************************************************************)
Resolved == outputs # <<>>
Filters == compiled.val.filters

\* The filters of fs up to the n-th applied to text, one after the other.
RECURSIVE AppliedUpTo(_, _, _)
AppliedUpTo(fs, text, n) ==
    IF n = 0 THEN text ELSE FilterRedact(fs[n], AppliedUpTo(fs, text, n - 1), "Full")

\* The matchers of a Pattern filter up to the n-th applied to text, one after the other.
RECURSIVE MatchersUpTo(_, _, _)
MatchersUpTo(ms, text, n) ==
    IF n = 0 THEN text ELSE PatternRedact(ms[n], MatchersUpTo(ms, text, n - 1), "Full")

\* C1: for a String value, the result is the filters applied left to right, the
\* first to the input and each later one to the output of the one before it; and a
\* Pattern filter applies its matchers in list order, each to the output of the one
\* before it.
C1_FoldInOrder ==
    (Resolved /\ value.kind = "Bytes") =>
        LET text == FromUtf8Lossy(value.bytes)
        IN /\ outputs[1] = Bytes(AppliedUpTo(Filters, text, Len(Filters)))
           /\ \A i \in 1..Len(Filters) :
                Filters[i].kind = "Pattern" =>
                    LET before == AppliedUpTo(Filters, text, i - 1)
                        ms == Filters[i].patterns
                    IN FilterRedact(Filters[i], before, "Full")
                         = MatchersUpTo(ms, before, Len(ms))

\* C1, where order matters: two filters that give another result when swapped, the
\* second of them matching text of the marker the first one put in.
C1_OrderMatters ==
    /\ Resolved
    /\ value.kind = "Bytes"
    /\ Len(Filters) = 2
    /\ outputs[1] # value
    /\ outputs[1] # Bytes(AppliedUpTo(<<Filters[2], Filters[1]>>, FromUtf8Lossy(value.bytes), 2))
    /\ AppliedUpTo(Filters, FromUtf8Lossy(value.bytes), 1) # FromUtf8Lossy(value.bytes)
    /\ FilterRedact(Filters[2], Marker, "Full") # Marker

\* Whether l occurs in s at position p (the empty text occurs at every boundary).
Occurs(l, s, p) ==
    /\ p >= 1
    /\ p + Len(l) - 1 <= Len(s)
    /\ SubSeq(s, p, p + Len(l) - 1) = l

\* P holds the occurrences of l in s that a left-to-right scan takes: they do not
\* overlap, and an occurrence is left out only when one taken before it overlaps it.
LeftToRightOccurrences(l, s, P) ==
    /\ \A p \in P : Occurs(l, s, p)
    /\ \A p, q \in P : p < q => q >= p + Len(l)
    /\ \A q \in 1..(Len(s) + 1) :
         (Occurs(l, s, q) /\ q \notin P) => \E p \in P : p < q /\ q < p + Len(l)

\* out is s with the occurrences of l at P replaced by the marker, every other
\* character unchanged and in place.
ReplacedAt(l, s, P, out) ==
    LET d == Len(Marker) - Len(l)
        at(p) == p + Cardinality({q \in P : q < p}) * d
    IN /\ Len(out) = Len(s) + Cardinality(P) * d
       /\ \A p \in P : SubSeq(out, at(p), at(p) + Len(Marker) - 1) = Marker
       /\ \A j \in 1..Len(s) :
            (~\E p \in P : p <= j /\ j < p + Len(l))
                => out[j + Cardinality({q \in P : q <= j}) * d] = s[j]

TheLiteral == Filters[1].patterns[1].string

\* C2: a single Literal matcher replaces every non-overlapping occurrence of the
\* literal, scanned left to right, by the marker and leaves every other character
\* unchanged and in place; a text without an occurrence is returned unchanged.
C2_LiteralReplaceAll ==
    Resolved =>
        LET s == FromUtf8Lossy(value.bytes)
            out == outputs[1].bytes
        IN /\ \E P \in SUBSET (1..(Len(s) + 1)) :
                LeftToRightOccurrences(TheLiteral, s, P) /\ ReplacedAt(TheLiteral, s, P, out)
           /\ (\A p \in 1..(Len(s) + 1) : ~Occurs(TheLiteral, s, p)) => out = s

\* C2 at work: two occurrences that overlap, of which the left one is replaced.
C2_OverlappingOccurrences ==
    /\ Resolved
    /\ Len(TheLiteral) = 2
    /\ \E p \in 1..Len(value.bytes) :
          /\ Occurs(TheLiteral, value.bytes, p)
          /\ Occurs(TheLiteral, value.bytes, p + 1)
          /\ Occurs(TheLiteral, value.bytes, p + 2)
    /\ outputs[1].bytes = Marker \o Marker

Chars(s) == {s[i] : i \in 1..Len(s)}

\* C10: a non-empty literal that shares no character with the marker does not occur
\* in the output of the FilterSet made of that one matcher.
C10_NoResidue ==
    (Resolved /\ TheLiteral # <<>> /\ Chars(TheLiteral) \cap Chars(Marker) = {}) =>
        \A p \in 1..Len(outputs[1].bytes) : ~Occurs(TheLiteral, outputs[1].bytes, p)

\* C10 at work: the replaced occurrence stands between the two halves of another
\* one, which only the marker keeps apart.
C10_MarkerKeepsApart ==
    /\ Resolved
    /\ Len(TheLiteral) = 2
    /\ Chars(TheLiteral) \cap Chars(Marker) = {}
    /\ value.bytes = <<TheLiteral[1]>> \o TheLiteral \o <<TheLiteral[2]>>
    /\ outputs[1].bytes = <<TheLiteral[1]>> \o Marker \o <<TheLiteral[2]>>

\* Whether b has the shape of a: the same kind at every node, the same length of
\* every array, the same keys of every object, and every leaf that is not a string
\* equal.
RECURSIVE SameShape(_, _)
SameShape(a, b) ==
    /\ a.kind = b.kind
    /\ CASE a.kind = "Bytes" -> TRUE
         [] a.kind = "Array" ->
               /\ Len(a.values) = Len(b.values)
               /\ \A i \in 1..Len(a.values) : SameShape(a.values[i], b.values[i])
         [] a.kind = "Object" ->
               /\ DOMAIN a.map = DOMAIN b.map
               /\ \A k \in DOMAIN a.map : SameShape(a.map[k], b.map[k])
         [] OTHER -> a = b

\* C3: redact returns a value of the shape of its input.
C3_SameShape == Resolved => SameShape(value, outputs[1])

\* C3 at work: an object with a key that a filter matches, whose strings were
\* redacted and whose other leaves were not.
C3_KeyMatchesFilter ==
    /\ Resolved
    /\ value.kind = "Object"
    /\ DOMAIN value.map = Keys
    /\ Len(Filters) = 1
    /\ FoldFilters(Filters, <<"a">>, "Full") # <<"a">>
    /\ value.map[<<"a">>].kind = "Bytes"
    /\ outputs[1].map[<<"a">>] # value.map[<<"a">>]
    /\ value.map[<<"k", "1">>].kind = "Integer"

\* The matchers a filter applies; the CreditCard filter applies its one regex.
MatchersOf(filter) ==
    IF filter.kind = "Pattern" THEN filter.patterns ELSE <<PatternRegex(CREDIT_CARD_REGEX)>>

AllMatchers == UNION {{MatchersOf(Filters[i])[j] : j \in 1..Len(MatchersOf(Filters[i]))}
                        : i \in 1..Len(Filters)}

\* The matcher cannot match the marker text: a literal is non-empty and shares no
\* character with the marker, a regex has no match in the marker.
CannotMatchMarker(m) ==
    IF m.kind = "String"
    THEN m.string # <<>> /\ Chars(m.string) \cap Chars(Marker) = {}
    ELSE \A i \in 1..Len(Marker) : RegexMatchEnd(m.regex, Marker, i) = 0

\* The regex holds an assertion about the text around the match (here \b), so that
\* whether a piece of text matches depends on its neighbours.
AssertsContext(m) == m.kind = "Regex" /\ m.regex = RE_WORD_START_A

Compiled == pc # "start"

IsObjectWith(expr, key) == expr.kind = "Container::Object" /\ key \in DOMAIN expr.object

TypeOf(expr) == expr.object["type"]

Invalid == {i \in 1..Len(filters_arg) : ~TryFrom(filters_arg[i]).ok}

\* The elements of the "patterns" array of an entry of type "pattern" (none for
\* another entry).
PatternsOf(expr) ==
    IF /\ IsObjectWith(expr, "type") /\ IsObjectWith(expr, "patterns")
       /\ TypeOf(expr).kind = "Literal::String" /\ TypeOf(expr).bytes = PATTERN_NAME
       /\ expr.object["patterns"].kind = "Container::Array"
    THEN expr.object["patterns"].array
    ELSE <<>>

\* A "patterns" list gives one matcher per element, in order, or the error of its
\* first invalid element.
PatternsInOrder(expr) ==
    LET ps == PatternsOf(expr)
        bad == {j \in 1..Len(ps) : ~PatternFromExpr(ps[j]).ok}
    IN ps # <<>> =>
          IF bad = {}
          THEN /\ TryFrom(expr).ok
               /\ Len(TryFrom(expr).val.patterns) = Len(ps)
               /\ \A j \in 1..Len(ps) :
                     TryFrom(expr).val.patterns[j] = PatternFromExpr(ps[j]).val
          ELSE TryFrom(expr) = PatternFromExpr(ps[Min(bad)])

\* C7: validation succeeds exactly when every entry is valid, and then gives one
\* filter per entry in the order of the entries; otherwise it fails with the error
\* of the first invalid entry (the error dbg! prints; inside a "patterns" list, that
\* of its first invalid element) and gives no FilterSet.
C7_FirstErrorOrAllFilters ==
    /\ \A i \in 1..Len(filters_arg) : PatternsInOrder(filters_arg[i])
    /\ Compiled =>
        IF Invalid = {}
        THEN /\ compiled.ok
             /\ dbg_err = NoError
             /\ Len(Filters) = Len(filters_arg)
             /\ \A i \in 1..Len(filters_arg) : Filters[i] = TryFrom(filters_arg[i]).val
        ELSE /\ ~compiled.ok
             /\ pc = "error"
             /\ dbg_err = TryFrom(filters_arg[Min(Invalid)]).err
             /\ DOMAIN compiled = {"ok", "err"}
             /\ outputs = <<>>

\* C7 at work: two invalid entries with different errors.
C7_TwoInvalidEntries ==
    /\ pc = "error"
    /\ Cardinality(Invalid) >= 2
    /\ TryFrom(filters_arg[1]).err # TryFrom(filters_arg[2]).err
    /\ dbg_err = TryFrom(filters_arg[1]).err

\* C4: a filter of type "pattern" with an empty "patterns" list is refused with a
\* patterns-shape error, so that every Pattern filter of a FilterSet holds a matcher.
C4_EmptyPatternsRefused ==
    Compiled =>
        /\ (\E i \in 1..Len(filters_arg) : filters_arg[i] = PatternObject(<<>>))
              => (~compiled.ok /\ (Invalid = {} =>
                      dbg_err \in {InvalidPatternsShape, InvalidPatternsEntry}))
        /\ compiled.ok =>
              \A i \in 1..Len(Filters) :
                  Filters[i].kind = "Pattern" => Filters[i].patterns # <<>>

\* C5: a FilterSet that compile accepts is not empty, and redact never runs without
\* a filter.
C5_FilterSetNotEmpty ==
    /\ (Compiled /\ compiled.ok) => Filters # <<>>
    /\ Resolved => Filters # <<>>

\* The outcome the grammar fixes for a filter entry: the filter, or the messages of
\* the kind of error (none where the grammar of the claim fixes no outcome).
GrammarOutcome(expr) ==
    CASE expr.kind = "Literal::String" /\ expr.bytes = CREDIT_CARD_NAME -> Ok(FilterCreditCard)
      [] expr.kind = "Literal::String" /\ expr.bytes = PATTERN_NAME
            -> Err({BareArgumentlessPattern})
      [] expr.kind = "Literal::String" /\ expr.bytes \notin {CREDIT_CARD_NAME, PATTERN_NAME}
            -> Err({UnknownFilterName})
      [] expr.kind = "Literal::Regex" -> Ok(FilterPattern(<<PatternRegex(expr.regex)>>))
      [] expr.kind = "Container::Object" /\ ~IsObjectWith(expr, "type")
            -> Err({MissingTypeField})
      [] IsObjectWith(expr, "type") /\ TypeOf(expr).kind # "Literal::String"
            -> Err({InvalidTypeValue})
      [] IsObjectWith(expr, "type") /\ TypeOf(expr) = StringLit(CREDIT_CARD_NAME)
            -> Ok(FilterCreditCard)
      [] IsObjectWith(expr, "type") /\ TypeOf(expr).kind = "Literal::String"
            /\ TypeOf(expr).bytes \notin {CREDIT_CARD_NAME, PATTERN_NAME}
            -> Err({UnknownFilterName})
      [] IsObjectWith(expr, "type") /\ TypeOf(expr) = StringLit(PATTERN_NAME)
            /\ ~IsObjectWith(expr, "patterns")
            -> Err({MissingPatternsField})
      [] IsObjectWith(expr, "type") /\ TypeOf(expr) = StringLit(PATTERN_NAME)
            /\ IsObjectWith(expr, "patterns")
            /\ \/ expr.object["patterns"].kind # "Container::Array"
               \/ \E j \in 1..Len(expr.object["patterns"].array) :
                     expr.object["patterns"].array[j].kind
                        \notin {"Literal::String", "Literal::Regex"}
            -> Err({InvalidPatternsShape, InvalidPatternsEntry})
      [] OTHER -> Err({})

\* try_from gives the outcome the grammar fixes.
MeetsGrammar(result, outcome) ==
    IF outcome.ok THEN result.ok /\ result.val = outcome.val
    ELSE outcome.err = {} \/ (~result.ok /\ result.err \in outcome.err)

\* C6, the part about try_from: every entry gets the outcome the grammar fixes.
C6_TryFromMeetsGrammar ==
    \A i \in 1..Len(filters_arg) : MeetsGrammar(TryFrom(filters_arg[i]), GrammarOutcome(filters_arg[i]))

\* C6: every entry gets the outcome the grammar fixes, and the caller of compile
\* receives the error of that kind.
C6_CallerReceivesErrorKind ==
    /\ C6_TryFromMeetsGrammar
    /\ (Compiled /\ Len(filters_arg) = 1)
          => MeetsGrammar(compiled, IF GrammarOutcome(filters_arg[1]).ok
                                    THEN Ok([filters |-> <<GrammarOutcome(filters_arg[1]).val>>,
                                             redactor |-> "Full"])
                                    ELSE GrammarOutcome(filters_arg[1]))

(***************************************************************************)
(* Properties of the credit-card filter                                    *)
(***************************************************************************)
DigitValue(c) ==
    CASE c = "0" -> 0 [] c = "1" -> 1 [] c = "2" -> 2 [] c = "3" -> 3 [] c = "4" -> 4
      [] c = "5" -> 5 [] c = "6" -> 6 [] c = "7" -> 7 [] c = "8" -> 8 [] c = "9" -> 9

\* The number that the first n digits of ds write (-1 when ds is shorter).
RECURSIVE Leading(_, _)
Leading(ds, n) ==
    IF n > Len(ds) THEN -1
    ELSE IF n = 0 THEN 0
    ELSE Leading(ds, n - 1) * 10 + DigitValue(ds[n])

\* The digit sequence conforms to one of the listed card-scheme layouts.
Conforms(ds) ==
    \/ Leading(ds, 1) = 4 /\ Len(ds) \in {13, 16}
    \/ Len(ds) = 16 /\ (Leading(ds, 2) \in 51..55 \/ Leading(ds, 4) \in 2221..2720)
    \/ Leading(ds, 2) \in {34, 37} /\ Len(ds) = 15
    \/ (Leading(ds, 3) \in 300..305 \/ Leading(ds, 2) \in {36, 38}) /\ Len(ds) = 14
    \/ (Leading(ds, 4) = 6011 \/ Leading(ds, 2) = 65) /\ Len(ds) = 16
    \/ Leading(ds, 4) \in {2131, 1800} /\ Len(ds) = 15
    \/ Leading(ds, 2) = 35 /\ Len(ds) = 16

====
